---------------------------- MODULE Spec2Model ----------------------------
(***************************************************************************)
(* Si5351A clock generator firmware (RP2040): the bus transport            *)
(* (I2C_comm.c) and the synthesizer controller with its command dispatcher *)
(* (si5351_cli.c).  The firmware is single threaded: one execution context *)
(* dispatches a command line, and the handler performs its bus             *)
(* transactions one after the other.  A handler is modelled as the list of *)
(* its operations (todo), executed one step at a time, so that every point *)
(* between two bus transactions is a state of the model.                   *)
(***************************************************************************)
EXTENDS Integers, Sequences, FiniteSets, TLC

(***************************************************************************)
(* Register map and program constants (si5351_cli.c).                      *)
(***************************************************************************)
PLLA_FREQ == 800000000
MAX_FREQ_HZ == 150000000
HZ_PER_MHZ == 1000000
REG_STAT0 == 0
REG_OE == 3
REG_CLK0_CTRL == 16
REG_CLK1_CTRL == 17
REG_CLK2_CTRL == 18
REG_MS0_BASE == 42
REG_MS1_BASE == 52
REG_MS2_BASE == 62
REG_CRYSTAL_LOAD == 183
REG_PLLA_BASE == 26
REG_PLL_RESET == 177
CTRL_ON == 79
CTRL_PD == 143
OE_ALL_OFF == 255
OE_CLK0_ON == 254
XTAL_LOAD_VAL == 128
PLL_RESET_VAL == 160
PLLA_MULT == 32
DEFAULT_DIV == 8
MIN_DIV == 4
CHIP_ADDR == 96

k_clk_ctrl == <<REG_CLK0_CTRL, REG_CLK1_CTRL, REG_CLK2_CTRL>>
k_ms_base == <<REG_MS0_BASE, REG_MS1_BASE, REG_MS2_BASE>>

(***************************************************************************)
(* Bounds of the model.                                                    *)
(***************************************************************************)
\* largest payload length handed to i2c_write by a direct caller
MaxLen == 9
\* largest timeout_ms handed to the *_with_timeout wrappers
MaxTimeout == 3
\* milliseconds the clock may advance during one wrapper call
MaxElapsed == 5

(***************************************************************************)
(* Bytes and bits.                                                         *)
(***************************************************************************)
Pow2(n) == 2^n

Bit(v, b) == (v \div Pow2(b)) % 2

\* oe |= (1u << ch), stored back into a uint8_t
SetBit(v, b) == IF Bit(v, b) = 1 THEN v ELSE v + Pow2(b)

\* oe &= ~(1u << ch), stored back into a uint8_t
ClrBit(v, b) == IF Bit(v, b) = 1 THEN v - Pow2(b) ELSE v

(***************************************************************************)
(* 32-bit unsigned values.  A value v is the pair of its 16-bit halves     *)
(* [hi, lo], v = hi * 65536 + lo, so that values up to 2^32 - 1 and the    *)
(* arithmetic modulo 2^32 of the target (unsigned, unsigned long and       *)
(* uint32_t are 32 bits wide on the RP2040) stay within the integers the   *)
(* model checker computes with.                                            *)
(***************************************************************************)
U32(h, l) == [hi |-> h, lo |-> l]

\* conversion of an int (possibly negative) to unsigned: value modulo 2^32
ToU32(n) == U32(((n - (n % 65536)) \div 65536) % 65536, n % 65536)

\* the value as an integer, for values below 2^31
U32Int(u) == u.hi * 65536 + u.lo

U32Small(u) == u.hi < 32768

\* u > n for an integer constant 0 <= n < 2^31
U32Gt(u, n) == IF U32Small(u) THEN U32Int(u) > n ELSE TRUE

\* (a - b) mod 2^32
U32Sub(a, b) ==
    LET l == a.lo - b.lo
        borrow == IF l < 0 THEN 1 ELSE 0
    IN  U32((a.hi - b.hi - borrow) % 65536, l % 65536)

\* (a + 1) mod 2^32
U32Inc(a) ==
    IF a.lo = 65535 THEN U32((a.hi + 1) % 65536, 0) ELSE U32(a.hi, a.lo + 1)

\* a < b
U32Lt(a, b) == a.hi < b.hi \/ (a.hi = b.hi /\ a.lo < b.lo)

\* (u * 1000000) mod 2^32; 1000000 = 15 * 65536 + 16960
U32MulMega(u) ==
    LET low == u.lo * 16960
    IN  U32(((low \div 65536) + u.hi * 16960 + u.lo * 15) % 65536, low % 65536)

(***************************************************************************)
(* Command lines are sequences of characters (one-character strings).      *)
(***************************************************************************)
Delims == {" ", "\t", "\r", "\n"}

UpperChars == <<"A","B","C","D","E","F","G","H","I","J","K","L","M",
                "N","O","P","Q","R","S","T","U","V","W","X","Y","Z">>
LowerChars == <<"a","b","c","d","e","f","g","h","i","j","k","l","m",
                "n","o","p","q","r","s","t","u","v","w","x","y","z">>
DigitChars == <<"0","1","2","3","4","5","6","7","8","9">>

IndexOf(seq, c) == CHOOSE i \in 1..Len(seq) : seq[i] = c

InSeq(seq, c) == \E i \in 1..Len(seq) : seq[i] = c

tolower(c) == IF InSeq(UpperChars, c) THEN LowerChars[IndexOf(UpperChars, c)] ELSE c

to_lower_inplace(s) == [i \in 1..Len(s) |-> tolower(s[i])]

\* replace_char that leaves the string as it is
replace_char_none(s, from, to) == s

replace_char(s, from, to) == [i \in 1..Len(s) |-> IF s[i] = from THEN to ELSE s[i]]

\* strncpy(dst, src, n); dst[n-1] = '\0'
strncpy(s, n) == SubSeq(s, 1, IF Len(s) < n - 1 THEN Len(s) ELSE n - 1)

\* length of the leading run of characters of s that are no delimiters
RECURSIVE TokLen(_)
TokLen(s) == IF s = <<>> \/ Head(s) \in Delims THEN 0 ELSE 1 + TokLen(Tail(s))

\* the tokens that successive calls strtok(buf, " \t\r\n"), strtok(NULL, ...) return
RECURSIVE strtok(_)
strtok(s) ==
    IF s = <<>> THEN <<>>
    ELSE IF Head(s) \in Delims THEN strtok(Tail(s))
    ELSE <<SubSeq(s, 1, TokLen(s))>> \o strtok(SubSeq(s, TokLen(s) + 1, Len(s)))

IsDigit(c) == InSeq(DigitChars, c)

DigitVal(c) == IndexOf(DigitChars, c) - 1

\* value of the leading decimal digits of s, continuing from acc
RECURSIVE DecDigits(_, _)
DecDigits(s, acc) ==
    IF s = <<>> \/ ~IsDigit(Head(s)) THEN acc
    ELSE DecDigits(Tail(s), acc * 10 + DigitVal(Head(s)))

\* atoi: optional sign, then decimal digits up to the first other character
atoi(s) ==
    IF s = <<>> THEN 0
    ELSE IF Head(s) = "-" THEN 0 - DecDigits(Tail(s), 0)
    ELSE IF Head(s) = "+" THEN DecDigits(Tail(s), 0)
    ELSE DecDigits(s, 0)

HexChars == <<"0","1","2","3","4","5","6","7","8","9","a","b","c","d","e","f">>

IsHex(c) == InSeq(HexChars, tolower(c))

RECURSIVE HexDigits(_, _)
HexDigits(s, acc) ==
    IF s = <<>> \/ ~IsHex(Head(s)) THEN acc
    ELSE HexDigits(Tail(s), acc * 16 + IndexOf(HexChars, tolower(Head(s))) - 1)

\* strtoul(s, NULL, 16): an optional 0x prefix, then hexadecimal digits
strtoul16(s) ==
    IF Len(s) >= 3 /\ s[1] = "0" /\ tolower(s[2]) = "x" /\ IsHex(s[3])
    THEN HexDigits(SubSeq(s, 3, Len(s)), 0)
    ELSE HexDigits(s, 0)

\* decimal text of n >= 0, as the dispatcher's sprintf("%d", i) writes it
RECURSIVE Dec(_)
Dec(n) == IF n < 10 THEN <<DigitChars[n + 1]>>
          ELSE Dec(n \div 10) \o <<DigitChars[(n % 10) + 1]>>

(***************************************************************************)
(* Divider computation and register encoding.                              *)
(***************************************************************************)
\* the 8 register bytes of a (P1, P2, P3) triple
EncodeP(P1, P2, P3) ==
    << (P3 \div 256) % 256,
       P3 % 256,
       (P1 \div 65536) % 4,
       (P1 \div 256) % 256,
       P1 % 256,
       (((P3 \div 4096) \div 16) % 16) * 16 + ((P2 \div 65536) % 16),
       (P2 \div 256) % 256,
       P2 % 256 >>

\* MsBytes with the offset of P1 forgotten: P1 = 128a
MsBytes_no_offset(div) ==
    LET a == IF div < MIN_DIV THEN MIN_DIV ELSE div
    IN  EncodeP(128 * a, 0, 1)

\* set_ms_intdiv: a = div (at least 4), b = 0, c = 1; P1 = 128a - 512
MsBytes(div) ==
    LET a == IF div < MIN_DIV THEN MIN_DIV ELSE div
    IN  EncodeP(128 * a - 512, 0, 1)

\* RoundDiv without the + 0.5: the quotient truncated
RoundDiv_truncate(freq_hz) == PLLA_FREQ \div freq_hz

\* (unsigned)((double)PLLA_FREQ / (double)freq_hz + 0.5) for 0 < freq_hz <=
\* 150 MHz.  The quotient is at least 1/(2 freq_hz) away from the nearest
\* point k + 1/2 it does not hit exactly, far more than the rounding error of
\* a double, so the double computation equals this integer one.
RoundDiv(freq_hz) == (2 * PLLA_FREQ + freq_hz) \div (2 * freq_hz)

(***************************************************************************)
(* Operations of a handler.  A handler is the sequence of the operations   *)
(* its code performs, in program order:                                    *)
(*   wr    i2c_write(g_i2c, g_addr, reg, data, len), tag printed on rc != 0*)
(*   wroe  oe |= (1u<<ch) or oe &= ~(1u<<ch), then wr8(REG_OE, oe)         *)
(*   rd    uint8_t var = init; i2c_read(g_i2c, g_addr, reg, &var, 1)       *)
(*   pr    serial_printf of one line, with constants and locals            *)
(*   scan  the loop of scan_i2c_quick, about to probe addr                 *)
(***************************************************************************)
Wr(reg, data, tag) == [op |-> "wr", reg |-> reg, data |-> data, tag |-> tag]

WrOe(mode, ch) == [op |-> "wroe", reg |-> REG_OE, mode |-> mode, ch |-> ch, tag |-> "WR_FAIL"]

Rd(var, init, reg, oktag, failtag) ==
    [op |-> "rd", var |-> var, init |-> init, reg |-> reg, oktag |-> oktag, tag |-> failtag]

Pr(msg, args, vars) == [op |-> "pr", msg |-> msg, args |-> args, vars |-> vars]

wr8(reg, v) == <<Wr(reg, <<v>>, "WR_FAIL")>>

rd8(var, init, reg) == <<Rd(var, init, reg, "", "RD_FAIL")>>

set_ms_intdiv(ms_base, div) == <<Wr(ms_base, MsBytes(div), "WR_FAIL_MS")>>

clk_ctrl_set(reg_clk_ctrl, val) == wr8(reg_clk_ctrl, val)

oe_mask_all(mask) == wr8(REG_OE, mask)

\* si5351_init_basic with channel 0 enabled before its divider is programmed
init_basic_enable_early ==
         oe_mask_all(OE_ALL_OFF)
      \o wr8(REG_CRYSTAL_LOAD, XTAL_LOAD_VAL)
      \o <<Wr(REG_PLLA_BASE, EncodeP(128 * PLLA_MULT - 512, 0, 1), "WR_FAIL_PLLA")>>
      \o wr8(REG_PLL_RESET, PLL_RESET_VAL)
      \o oe_mask_all(OE_CLK0_ON)
      \o set_ms_intdiv(REG_MS0_BASE, DEFAULT_DIV)
      \o clk_ctrl_set(REG_CLK0_CTRL, CTRL_ON)
      \o clk_ctrl_set(REG_CLK1_CTRL, CTRL_PD)
      \o clk_ctrl_set(REG_CLK2_CTRL, CTRL_PD)
      \o <<Pr("INITIALIZED", <<>>, <<>>)>>

\* scan_i2c_quick: the loop variable addr and the local found
SCAN_FIRST == 8
SCAN_LAST == 119

Scan(addr, found) == [op |-> "scan", addr |-> addr, found |-> found]

\* the printf after the loop of scan_i2c_quick, and its return value
scan_result(found) ==
    [next |-> IF found # 0 THEN <<Pr("FOUND", <<found>>, <<>>)>> ELSE <<Pr("NONE", <<>>, <<>>)>>,
     rc |-> IF found # 0 THEN 1 ELSE 0]

\* scan_i2c_quick without the break: the loop goes on after an address answered
scan_step_no_break(addr, found, r_ok) ==
    LET f == IF r_ok THEN addr ELSE found
    IN  IF addr < SCAN_LAST THEN [next |-> <<Scan(addr + 1, f)>>, rc |-> 0]
        ELSE scan_result(f)

\* one iteration of the loop of scan_i2c_quick: r_ok is r >= 0 for the probe of addr
scan_step(addr, found, r_ok) ==
    IF r_ok THEN scan_result(addr)
    ELSE IF addr < SCAN_LAST THEN [next |-> <<Scan(addr + 1, found)>>, rc |-> 0]
    ELSE scan_result(found)

scan_i2c_quick == <<Scan(SCAN_FIRST, 0)>>

si5351_init_basic ==
         oe_mask_all(OE_ALL_OFF)
      \o wr8(REG_CRYSTAL_LOAD, XTAL_LOAD_VAL)
      \o <<Wr(REG_PLLA_BASE, EncodeP(128 * PLLA_MULT - 512, 0, 1), "WR_FAIL_PLLA")>>
      \o wr8(REG_PLL_RESET, PLL_RESET_VAL)
      \o set_ms_intdiv(REG_MS0_BASE, DEFAULT_DIV)
      \o clk_ctrl_set(REG_CLK0_CTRL, CTRL_ON)
      \o clk_ctrl_set(REG_CLK1_CTRL, CTRL_PD)
      \o clk_ctrl_set(REG_CLK2_CTRL, CTRL_PD)
      \o oe_mask_all(OE_CLK0_ON)
      \o <<Pr("INITIALIZED", <<>>, <<>>)>>

\* the value of `unsigned div` after line 136; ubdiv is the outcome of the
\* conversion of an infinite double when freq_hz wrapped to 0
freq_div(freq_hz, ubdiv) ==
    LET div == IF U32Int(freq_hz) = 0 THEN ubdiv ELSE RoundDiv(U32Int(freq_hz))
    IN  IF div < MIN_DIV THEN MIN_DIV ELSE div

\* freq_disable that also powers the channel down through its control register
freq_disable_powerdown(c) ==
       rd8("oe", 255, REG_OE) \o <<WrOe("set", c)>>
    \o clk_ctrl_set(k_clk_ctrl[c + 1], CTRL_PD)
    \o <<Pr("CLK_DISABLED", <<c>>, <<>>)>>

\* si5351_set_freq_ch, freq_mhz == 0: disable the channel
freq_disable(c) ==
    rd8("oe", 255, REG_OE) \o <<WrOe("set", c)>> \o <<Pr("CLK_DISABLED", <<c>>, <<>>)>>

\* freq_program with the output enabled before divider and control are written
freq_program_oe_first(c, freq_mhz, div) ==
         rd8("oe", 255, REG_OE)
      \o <<WrOe("clr", c)>>
      \o set_ms_intdiv(k_ms_base[c + 1], div % 65536)
      \o clk_ctrl_set(k_clk_ctrl[c + 1], CTRL_ON)
      \o <<Pr("CLK_SET", <<c, freq_mhz, div>>, <<>>)>>

\* si5351_set_freq_ch, accepted frequency: divider, control, then enable
freq_program(c, freq_mhz, div) ==
         set_ms_intdiv(k_ms_base[c + 1], div % 65536)
      \o clk_ctrl_set(k_clk_ctrl[c + 1], CTRL_ON)
      \o rd8("oe", 255, REG_OE)
      \o <<WrOe("clr", c)>>
      \o <<Pr("CLK_SET", <<c, freq_mhz, div>>, <<>>)>>

\* is freq_hz > 150000000UL
too_high(freq_hz) == U32Gt(freq_hz, MAX_FREQ_HZ)

\* si5351_set_freq_ch that rejects a bad channel without a word
set_freq_ch_no_diag(ch, freq_mhz, ubdiv) ==
    IF U32Gt(ch, 2) THEN <<>>
    ELSE IF freq_mhz = U32(0, 0) THEN freq_disable(U32Int(ch))
    ELSE LET freq_hz == U32MulMega(freq_mhz)
         IN  IF too_high(freq_hz) THEN <<Pr("TOO_HIGH", <<>>, <<>>)>>
             ELSE freq_program(U32Int(ch), freq_mhz, freq_div(freq_hz, ubdiv))

si5351_set_freq_ch(ch, freq_mhz, ubdiv) ==
    IF U32Gt(ch, 2) THEN <<Pr("ERR_CH", <<ch>>, <<>>)>>
    ELSE IF freq_mhz = U32(0, 0) THEN freq_disable(U32Int(ch))
    ELSE LET freq_hz == U32MulMega(freq_mhz)
         IN  IF too_high(freq_hz) THEN <<Pr("TOO_HIGH", <<>>, <<>>)>>
             ELSE freq_program(U32Int(ch), freq_mhz, freq_div(freq_hz, ubdiv))

HelpLines == 15

cmd_help == [i \in 1..HelpLines |-> Pr("HELP", <<i>>, <<>>)]

cmd_status ==
         rd8("s", 0, REG_STAT0) \o rd8("oe", 0, REG_OE) \o rd8("c0", 0, REG_CLK0_CTRL)
      \o <<Pr("STATUS", <<>>, <<"s", "oe", "c0">>)>>

cmd_peek(reg) == <<Rd("v", 255, reg % 256, "REG", "READ_FAIL")>>

cmd_poke(reg, val) == wr8(reg % 256, val % 256)

\* force_on that opens channel 0 before it closes all outputs
force_on_open_first ==
         oe_mask_all(OE_CLK0_ON)
      \o oe_mask_all(OE_ALL_OFF)
      \o clk_ctrl_set(REG_CLK0_CTRL, CTRL_ON)
      \o rd8("oe", 0, REG_OE) \o rd8("c0", 0, REG_CLK0_CTRL)
      \o <<Pr("FORCE", <<>>, <<"oe", "c0">>)>>

cmd_force_on ==
         oe_mask_all(OE_ALL_OFF)
      \o oe_mask_all(OE_CLK0_ON)
      \o clk_ctrl_set(REG_CLK0_CTRL, CTRL_ON)
      \o rd8("oe", 0, REG_OE) \o rd8("c0", 0, REG_CLK0_CTRL)
      \o <<Pr("FORCE", <<>>, <<"oe", "c0">>)>>

\* the tail of si5351_cli_handle with a diagnostic missing
cmd_unknown_silent == <<>>

\* line 290: no verb matched
cmd_unknown == <<Pr("UNKNOWN", <<>>, <<>>)>>

cmd_oe(m) ==
    IF m = <<"o","n">> THEN oe_mask_all(0) \o <<Pr("OE_ON", <<>>, <<>>)>>
    ELSE IF m = <<"o","f","f">> THEN oe_mask_all(OE_ALL_OFF) \o <<Pr("OE_OFF", <<>>, <<>>)>>
    ELSE <<Pr("USAGE_OE", <<>>, <<>>)>>

(***************************************************************************)
(* The dispatcher si5351_cli_handle: the handler a command line is routed  *)
(* to, with its arguments as the handler receives them.                    *)
(***************************************************************************)
K_help == <<"h","e","l","p">>
K_scan == <<"s","c","a","n">>
K_status == <<"s","t","a","t","u","s">>
K_peek == <<"p","e","e","k">>
K_poke == <<"p","o","k","e">>
K_init == <<"i","n","i","t">>
K_force_on == <<"f","o","r","c","e","_","o","n">>
K_oe == <<"o","e">>
K_freq == <<"f","r","e","q">>
K_clk == <<"c","l","k">>
K_ch == <<"c","h">>
K_cll == <<"c","l","l">>

\* the patterns "freq%d", "ch%d", "clk%d", "cll%d" of the loop at lines 278-287
ChannelKeys(i) == {K_freq \o Dec(i), K_ch \o Dec(i), K_clk \o Dec(i), K_cll \o Dec(i)}

si5351_cli_handle(cmd) ==
    LET buf == replace_char(strncpy(cmd, 128), "=", " ")
        toks == strtok(buf)
        key == to_lower_inplace(strncpy(toks[1], 32))
        \* the token the i-th strtok(NULL, ...) returns; <<>> stands for NULL
        arg(i) == IF Len(toks) > i THEN toks[i + 1] ELSE <<>>
    IN  IF cmd = <<>> \/ toks = <<>> THEN [fn |-> "return"]
        ELSE IF key = K_help \/ key = <<"h">> \/ key = <<"?">> THEN [fn |-> "help"]
        ELSE IF key = K_scan THEN [fn |-> "scan"]
        ELSE IF key = K_status THEN [fn |-> "status"]
        ELSE IF key = K_peek THEN
            IF arg(1) = <<>> THEN [fn |-> "usage", msg |-> "USAGE_PEEK"]
            ELSE [fn |-> "peek", reg |-> strtoul16(arg(1))]
        ELSE IF key = K_poke THEN
            IF arg(1) = <<>> \/ arg(2) = <<>> THEN [fn |-> "usage", msg |-> "USAGE_POKE"]
            ELSE [fn |-> "poke", reg |-> strtoul16(arg(1)), val |-> strtoul16(arg(2))]
        ELSE IF key = K_init THEN [fn |-> "init"]
        ELSE IF key = K_force_on THEN [fn |-> "force_on"]
        ELSE IF key = K_oe THEN
            IF arg(1) = <<>> THEN [fn |-> "usage", msg |-> "USAGE_OE"]
            ELSE [fn |-> "oe", m |-> to_lower_inplace(arg(1))]
        ELSE IF key = K_freq THEN
            IF arg(1) = <<>> THEN [fn |-> "usage", msg |-> "USAGE_FREQ"]
            ELSE [fn |-> "set_freq", ch |-> ToU32(0), mhz |-> ToU32(atoi(arg(1)))]
        ELSE IF key = K_clk THEN
            IF arg(1) = <<>> \/ arg(2) = <<>> THEN [fn |-> "usage", msg |-> "USAGE_CLK"]
            ELSE [fn |-> "set_freq", ch |-> ToU32(atoi(arg(1))), mhz |-> ToU32(atoi(arg(2)))]
        ELSE IF \E i \in 0..2 : key \in ChannelKeys(i) THEN
            LET i == CHOOSE j \in 0..2 : key \in ChannelKeys(j)
            IN  [fn |-> "set_freq", ch |-> ToU32(i),
                 mhz |-> IF arg(1) = <<>> THEN ToU32(0) ELSE ToU32(atoi(arg(1)))]
        ELSE [fn |-> "unknown"]

\* the operations of the handler a command line was routed to
handler_ops(r, ubdiv) ==
    CASE r.fn = "return" -> <<>>
      [] r.fn = "help" -> cmd_help
      [] r.fn = "scan" -> scan_i2c_quick
      [] r.fn = "status" -> cmd_status
      [] r.fn = "usage" -> <<Pr(r.msg, <<>>, <<>>)>>
      [] r.fn = "peek" -> cmd_peek(r.reg)
      [] r.fn = "poke" -> cmd_poke(r.reg, r.val)
      [] r.fn = "init" -> si5351_init_basic
      [] r.fn = "force_on" -> cmd_force_on
      [] r.fn = "oe" -> cmd_oe(r.m)
      [] r.fn = "set_freq" -> si5351_set_freq_ch(r.ch, r.mhz, ubdiv)
      [] r.fn = "unknown" -> cmd_unknown

(***************************************************************************)
(* State.                                                                  *)
(*   g_i2c, g_addr  the controller's bound bus handle and chip address     *)
(*   regs           the chip's register file (the registers the firmware   *)
(*                  programs)                                              *)
(*   pc, todo       "run" while a handler executes; its remaining          *)
(*                  operations                                             *)
(*   phase          position inside the operation at the head of todo      *)
(*   loc            the handler's locals (uint8_t s, oe, c0, v)            *)
(*   rc             return code of the last transport call                 *)
(*   call           the call in progress or last completed                 *)
(*   pre            the register file when the call started                *)
(*   log            the bus transactions of the call, in order             *)
(*   out            the lines the call printed, in order                   *)
(*   now            to_ms_since_boot(get_absolute_time()), 32 bits         *)
(*   t_start        `start` of the *_with_timeout wrappers                 *)
(*   elapsed        milliseconds passed since the call started             *)
(*   attempts       bus attempts the wrapper has started                   *)
(*   att_at         value of elapsed when the last attempt started         *)
(*   stalled        the slave holds the bus and never releases it          *)
(*   line           main's cmd buffer: the command line being handled      *)
(*   devs           the 7-bit addresses that acknowledge on the bus        *)
(*   bpc            main's position: the boot steps, "cli" for the command *)
(*                  loop, "halt" for while (1) tight_loop_contents()       *)
(*   periph         the bus peripheral: "off", "ready", or "failed" when   *)
(*                  i2c_init_config returned false                         *)
(*   life           bus_clear, init and deinit events since power-up       *)
(*   hold           clock pulses the peer still needs before it releases   *)
(*                  the data line (0: released, Never: it never does)      *)
(*   pulses         the loop counter i of i2c_bus_clear                    *)
(*   bc_obs         what the last i2c_bus_clear call handed to its caller  *)
(***************************************************************************)
VARIABLES g_i2c, g_addr, regs, pc, todo, phase, loc, rc, call, pre, log, out,
          now, t_start, elapsed, attempts, att_at, stalled,
          line, devs, bpc, periph, life, hold, pulses, bc_obs

vars == <<g_i2c, g_addr, regs, pc, todo, phase, loc, rc, call, pre, log, out,
          now, t_start, elapsed, attempts, att_at, stalled,
          line, devs, bpc, periph, life, hold, pulses, bc_obs>>

ctlvars == <<g_i2c, g_addr>>
clkvars == <<now, t_start, elapsed, attempts, att_at, stalled>>
hwvars == <<devs, periph, life, hold, pulses, bc_obs>>
envvars == <<line, bpc, devs, periph, life, hold, pulses, bc_obs>>

TrackedRegs ==
    {REG_STAT0, REG_OE, REG_CLK0_CTRL, REG_CLK1_CTRL, REG_CLK2_CTRL,
     REG_PLL_RESET, REG_CRYSTAL_LOAD}
    \cup (REG_PLLA_BASE..(REG_PLLA_BASE + 7))
    \cup (REG_MS0_BASE..(REG_MS0_BASE + 7))
    \cup (REG_MS1_BASE..(REG_MS1_BASE + 7))
    \cup (REG_MS2_BASE..(REG_MS2_BASE + 7))

\* the register file after the chip accepted a burst write of data at reg
WriteRegs(rf, reg, data) ==
    [r \in DOMAIN rf |->
        IF r >= reg /\ r < reg + Len(data) THEN data[r - reg + 1] ELSE rf[r]]

\* the byte the chip returns for a one-byte read of reg
ReadReg(rf, reg) == IF reg \in DOMAIN rf THEN rf[reg] ELSE 0

\* the 8 bytes of the register file at base..base+7
Burst(rf, base) == [i \in 1..8 |-> rf[base + i - 1]]

LocInit == [s |-> 0, oe |-> 0, c0 |-> 0, v |-> 0]

NoCall == [fn |-> "none"]

\* outcomes of the conversion (unsigned)(divf + 0.5) of an infinite double
\* (undefined behaviour; freq_hz wrapped to 0): zero, or a saturated value,
\* given by its low 16 bits, which is what set_ms_intdiv receives
UBDivs == {0, 65535}

\* `hold` of a peer that never releases the data line
Never == -1

\* i2c_bus_clear returns void and prints nothing: what its caller receives
BcVoid == [ret |-> "void", out |-> <<>>]

\* a zero-length probe of addr is acknowledged: a device answers at addr, the
\* peripheral is up and the data line is free
ProbeAck(addr) == addr \in devs /\ periph = "ready" /\ hold = 0

\* a transaction addressed to g_addr can be acknowledged only by a device
\* there, and a device may fail to acknowledge
AckOutcomes == IF ProbeAck(g_addr) THEN BOOLEAN ELSE {FALSE}

(***************************************************************************)
(* Initial chip states and command lines.                                  *)
(***************************************************************************)
OEInit == (0..7) \cup (248..255)

FillFiles == {[r \in TrackedRegs |-> 0], [r \in TrackedRegs |-> 255],
              [r \in TrackedRegs |-> (7 * r + 1) % 256]}

InitRegFiles == {[f EXCEPT ![REG_OE] = o] : f \in FillFiles, o \in OEInit}

InitCommon ==
    /\ g_i2c = "NULL"
    /\ g_addr = CHIP_ADDR
    /\ pc = "idle"
    /\ todo = <<>>
    /\ phase = "start"
    /\ loc = LocInit
    /\ rc = 0
    /\ call = NoCall
    /\ log = <<>>
    /\ out = <<>>
    /\ elapsed = 0
    /\ attempts = 0
    /\ att_at = 0
    /\ stalled = FALSE
    /\ line = <<>>

\* main has reached its command loop: the bus was cleared with the data line
\* free, the peripheral is up
InitBooted ==
    /\ bpc = "cli"
    /\ periph = "ready"
    /\ life = <<"bus_clear", "init_ok">>
    /\ hold = 0
    /\ pulses = 1
    /\ bc_obs = BcVoid

Init ==
    /\ InitCommon
    /\ InitBooted
    /\ devs = {CHIP_ADDR}
    /\ regs \in InitRegFiles
    /\ pre = regs
    /\ now = U32(0, 0)
    /\ t_start = now

(***************************************************************************)
(* Actions of the controller.                                              *)
(***************************************************************************)
\* si5351_cli_init(port, addr)
CliInit(addr) ==
    /\ pc = "idle"
    /\ g_i2c = "NULL"
    /\ g_i2c' = "i2c1"
    /\ g_addr' = addr % 128
    /\ UNCHANGED <<regs, pc, todo, phase, loc, rc, call, pre, log, out>>
    /\ UNCHANGED clkvars
    /\ UNCHANGED envvars

\* a call starts: its operations are pending, its records are empty
Begin(r, ops) ==
    /\ call' = r
    /\ todo' = ops
    /\ pc' = IF ops = <<>> THEN "idle" ELSE "run"
    /\ phase' = "start"
    /\ loc' = LocInit
    /\ rc' = 0
    /\ pre' = regs
    /\ log' = <<>>
    /\ out' = <<>>
    /\ t_start' = now
    /\ elapsed' = 0
    /\ attempts' = 0
    /\ att_at' = 0
    /\ UNCHANGED <<g_i2c, g_addr, regs, now, stalled>>

\* si5351_cli_handle(cmd), up to the handler's first operation
Handle(cmd) ==
    /\ \E d \in UBDivs : Begin(si5351_cli_handle(cmd), handler_ops(si5351_cli_handle(cmd), d))
    /\ line' = cmd

\* main's command loop passes a line to si5351_cli_handle
Dispatch(cmd) ==
    /\ pc = "idle"
    /\ bpc = "cli"
    /\ g_i2c # "NULL"
    /\ Handle(cmd)
    /\ UNCHANGED <<bpc, devs, periph, life, hold, pulses, bc_obs>>

\* the operation at the head of todo is complete
Advance ==
    /\ todo' = Tail(todo)
    /\ pc' = IF Tail(todo) = <<>> THEN "idle" ELSE "run"
    /\ phase' = "start"

Running(ops) == pc = "run" /\ todo # <<>> /\ Head(todo).op \in ops

\* the byte wr8(REG_OE, oe) writes after oe |= (1u<<ch) or oe &= ~(1u<<ch)
OeValue(o, oe) == IF o.mode = "set" THEN SetBit(oe, o.ch) ELSE ClrBit(oe, o.ch)

\* a caller of wr8 that gives up at the first failed write
after_write_abort(ops, ok) == IF ok THEN Tail(ops) ELSE <<>>

\* the callers of wr8 and set_ms_intdiv drop the return code: the handler
\* goes on with its next operation whether the write succeeded or not
after_write(ops, ok) == Tail(ops)

\* i2c_write: one blocking write of reg and the payload; rc -1 on failure (the
\* transfer is not acknowledged and the chip's registers keep their values).
\* A blocking transfer has no timeout: it completes only if the bus is not held.
BusWrite ==
    /\ Running({"wr", "wroe"})
    /\ ~stalled
    /\ LET o == Head(todo)
           data == IF o.op = "wr" THEN o.data ELSE <<OeValue(o, loc.oe)>>
       IN  /\ loc' = IF o.op = "wroe" THEN [loc EXCEPT !.oe = OeValue(o, loc.oe)] ELSE loc
           /\ \E ok \in AckOutcomes :
                /\ regs' = IF ok THEN WriteRegs(regs, o.reg, data) ELSE regs
                /\ rc' = IF ok THEN 0 ELSE -1
                /\ log' = Append(log, [kind |-> "W", reg |-> o.reg, data |-> data, ok |-> ok])
                /\ out' = IF ok \/ o.tag = "" THEN out
                          ELSE Append(out, [msg |-> o.tag, args |-> <<o.reg>>])
                /\ todo' = after_write(todo, ok)
                /\ pc' = IF after_write(todo, ok) = <<>> THEN "idle" ELSE "run"
                /\ phase' = "start"
    /\ UNCHANGED <<call, pre>>
    /\ UNCHANGED ctlvars
    /\ UNCHANGED envvars
    /\ UNCHANGED clkvars

\* i2c_read, first phase: i2c_write_blocking of the register address; on
\* failure the caller's buffer keeps the value it was initialized with
BusReadAddr ==
    /\ Running({"rd"})
    /\ phase = "start"
    /\ ~stalled
    /\ LET o == Head(todo)
       IN  \E ok \in AckOutcomes :
             IF ok
             THEN /\ phase' = "data"
                  /\ UNCHANGED <<todo, pc, loc, rc, log, out>>
             ELSE /\ rc' = -1
                  /\ loc' = [loc EXCEPT ![o.var] = o.init]
                  /\ log' = Append(log, [kind |-> "R", reg |-> o.reg, rc |-> -1, val |-> o.init])
                  /\ out' = IF o.tag = "" THEN out
                            ELSE Append(out, [msg |-> o.tag, args |-> <<o.reg>>])
                  /\ Advance
    /\ UNCHANGED <<regs, call, pre>>
    /\ UNCHANGED ctlvars
    /\ UNCHANGED envvars
    /\ UNCHANGED clkvars

\* i2c_read, second phase: i2c_read_blocking of the data byte
BusReadData ==
    /\ Running({"rd"})
    /\ phase = "data"
    /\ ~stalled
    /\ LET o == Head(todo)
       IN  \E ok \in AckOutcomes :
             LET v == IF ok THEN ReadReg(regs, o.reg) ELSE o.init
             IN  /\ rc' = IF ok THEN 0 ELSE -2
                 /\ loc' = [loc EXCEPT ![o.var] = v]
                 /\ log' = Append(log, [kind |-> "R", reg |-> o.reg,
                                        rc |-> IF ok THEN 0 ELSE -2, val |-> v])
                 /\ out' = IF ok
                           THEN IF o.oktag = "" THEN out
                                ELSE Append(out, [msg |-> o.oktag, args |-> <<o.reg, v>>])
                           ELSE IF o.tag = "" THEN out
                                ELSE Append(out, [msg |-> o.tag, args |-> <<o.reg>>])
    /\ Advance
    /\ UNCHANGED <<regs, call, pre>>
    /\ UNCHANGED ctlvars
    /\ UNCHANGED envvars
    /\ UNCHANGED clkvars

\* serial_printf of one line
Printf ==
    /\ Running({"pr"})
    /\ LET o == Head(todo)
       IN  out' = Append(out, [msg |-> o.msg,
                               args |-> o.args \o [i \in 1..Len(o.vars) |-> loc[o.vars[i]]]])
    /\ Advance
    /\ UNCHANGED <<regs, loc, rc, call, pre, log>>
    /\ UNCHANGED ctlvars
    /\ UNCHANGED envvars
    /\ UNCHANGED clkvars

\* scan_i2c_quick: i2c_write_timeout_us(i2c_port, addr, &dummy, 0, false, 1000),
\* a zero-length write that gives up after 1 ms, and the rest of the iteration
ScanProbe ==
    /\ Running({"scan"})
    /\ LET o == Head(todo)
           r_ok == ProbeAck(o.addr)
           st == scan_step(o.addr, o.found, r_ok)
       IN  /\ log' = Append(log, [kind |-> "P", addr |-> o.addr, ok |-> r_ok])
           /\ todo' = st.next \o Tail(todo)
           /\ rc' = st.rc
    /\ UNCHANGED <<regs, pc, phase, loc, call, pre, out>>
    /\ UNCHANGED ctlvars
    /\ UNCHANGED envvars
    /\ UNCHANGED clkvars

(***************************************************************************)
(* Command lines.                                                          *)
(***************************************************************************)
\* decimal text of an int, as typed on the command line
DecS(n) == IF n < 0 THEN <<"-">> \o Dec(0 - n) ELSE Dec(n)

\* the line "clk <ch> <mhz>"
ClkLine(ch, mhz) == K_clk \o <<" ">> \o DecS(ch) \o <<" ">> \o DecS(mhz)

FixedLines ==
    {<<>>,
     <<"i","n","i","t">>,
     <<"I","N","I","T">>,
     <<"f","o","r","c","e","_","o","n">>,
     <<"o","e"," ","o","n">>,
     <<"o","e"," ","O","F","F">>,
     <<"o","e">>,
     <<"o","e"," ","x">>,
     <<"s","t","a","t","u","s">>,
     <<"p","e","e","k"," ","3">>,
     <<"p","e","e","k">>,
     <<"p","o","k","e"," ","3"," ","f","e">>,
     <<"p","o","k","e"," ","0","x","1","0"," ","8","F">>,
     <<"p","o","k","e"," ","3">>,
     <<"h","e","l","p">>,
     <<"?">>,
     <<"x","y","z">>,
     <<"c","l","k","3","=","5">>,
     <<"P","i","n","g">>,
     <<"h","e","l","p","m","e"," ","3">>,
     <<"c","l"," ","0"," ","1","0">>,
     <<"f","r","e","q","=","1","0","0">>,
     <<"f","r","e","q"," ","0">>,
     <<"f","r","e","q">>,
     <<"c","l","k"," ","1">>,
     <<"c","l","k","0","=","1","0","0">>,
     <<"c","l","k","1","=","0">>,
     <<"c","l","k","2","=","1","5","0">>,
     <<"c","h","1","=","2","5">>,
     <<"f","r","e","q","2","=","8">>,
     <<"c","l","l","0","=","1","0">>,
     <<"c","l","k"," ","3"," ","1","0">>,
     <<"c","l","k"," ","0"," ","1","5","1">>,
     <<"C","L","K","0","=","1","0","0">>,
     <<"c","l","k","0">>,
     <<"c","l","k"," ","0"," ","4","2","9","5">>,
     <<" ">>}

CmdLines == FixedLines \cup {ClkLine(ch, m) : ch \in 0..2, m \in {0, 20}}

\* largest frequency_mhz of the exhaustive range of SpecFreq
MaxMhzArg == 152

\* arguments whose product with 1000000 leaves the 32-bit range, and negative ones
WrapArgs == {4294, 4295, 4296, 4444, 67108864, 2147483647, -1, -4294, -4295}

\* channel arguments outside 0..2, negative ones included
BadChannels == {3, 4, 255, 256, 65536, 2147483647, -1, -2, -2147483647}

FreqCmdLines ==
    {ClkLine(ch, m) : ch \in 0..3, m \in 0..MaxMhzArg}
    \cup {ClkLine(ch, m) : ch \in {0, 2}, m \in WrapArgs}
    \cup {ClkLine(-1, 100)}
    \cup {ClkLine(ch, m) : ch \in BadChannels, m \in WrapArgs \cup {0, 100}}

(***************************************************************************)
(* The transport called directly (I2C_comm.c): i2c_write, i2c_read and the *)
(* retrying wrappers.  The calls address the chip.                         *)
(***************************************************************************)
\* bus attempts one wrapper call may start in the model
MaxAttempts == 3

Payload(len) == [i \in 1..len |-> 160 + i]

WrTo(reg, data, timeout_ms) ==
    [op |-> "wr_to", reg |-> reg, data |-> data, timeout |-> timeout_ms]

RdTo(reg, timeout_ms) == [op |-> "rd_to", reg |-> reg, timeout |-> timeout_ms]

CallWrite(reg, len) ==
    /\ pc = "idle"
    /\ Begin([fn |-> "i2c_write", reg |-> reg, len |-> len], <<Wr(reg, Payload(len), "")>>)
    /\ UNCHANGED envvars

CallRead(reg) ==
    /\ pc = "idle"
    /\ Begin([fn |-> "i2c_read", reg |-> reg], <<Rd("v", 255, reg, "", "")>>)
    /\ UNCHANGED envvars

CallWriteTimeout(reg, len, timeout_ms) ==
    /\ pc = "idle"
    /\ Begin([fn |-> "i2c_write_with_timeout", reg |-> reg, len |-> len,
              timeout |-> timeout_ms],
             <<WrTo(reg, Payload(len), timeout_ms)>>)
    /\ UNCHANGED envvars

CallReadTimeout(reg, timeout_ms) ==
    /\ pc = "idle"
    /\ Begin([fn |-> "i2c_read_with_timeout", reg |-> reg, timeout |-> timeout_ms],
             <<RdTo(reg, timeout_ms)>>)
    /\ UNCHANGED envvars

\* in_time with <= for <: one more attempt when the deadline is reached
in_time_inclusive(t, start, timeout_ms) ==
    \/ U32Lt(U32Sub(t, start), ToU32(timeout_ms))
    \/ U32Sub(t, start) = ToU32(timeout_ms)

\* in_time as a comparison with the deadline start + timeout_ms (mod 2^32):
\* wrong when the deadline lies beyond the wrap of the counter
in_time_deadline(t, start, timeout_ms) ==
    U32Lt(t, U32Sub(start, ToU32(0 - timeout_ms)))

\* the loop condition: to_ms_since_boot(get_absolute_time()) - start < timeout_ms
in_time(t, start, timeout_ms) == U32Lt(U32Sub(t, start), ToU32(timeout_ms))

\* the wrapper's loop test; when it passes, the bus attempt starts
LoopTest ==
    /\ Running({"wr_to", "rd_to"})
    /\ phase = "start"
    /\ IF in_time(now, t_start, Head(todo).timeout)
       THEN /\ attempts < MaxAttempts
            /\ phase' = "attempt"
            /\ attempts' = attempts + 1
            /\ att_at' = elapsed
            /\ UNCHANGED <<todo, pc, rc, out>>
       ELSE /\ rc' = -1
            /\ out' = Append(out, [msg |-> "I2C_TIMEOUT", args |-> <<>>])
            /\ Advance
            /\ UNCHANGED <<attempts, att_at>>
    /\ UNCHANGED <<regs, loc, call, pre, log, now, t_start, elapsed, stalled>>
    /\ UNCHANGED ctlvars
    /\ UNCHANGED envvars

\* i2c_write_with_timeout: one i2c_write_blocking attempt
AttemptWrite ==
    /\ Running({"wr_to"})
    /\ phase = "attempt"
    /\ ~stalled
    /\ LET o == Head(todo)
       IN  \E ok \in AckOutcomes :
             /\ log' = Append(log, [kind |-> "W", reg |-> o.reg, data |-> o.data, ok |-> ok])
             /\ IF ok
                THEN /\ regs' = WriteRegs(regs, o.reg, o.data)
                     /\ rc' = 0
                     /\ Advance
                ELSE /\ phase' = "start"
                     /\ UNCHANGED <<regs, rc, todo, pc>>
    /\ UNCHANGED <<loc, call, pre, out>>
    /\ UNCHANGED ctlvars
    /\ UNCHANGED envvars
    /\ UNCHANGED clkvars

\* i2c_read_with_timeout: the i2c_write_blocking of the register address
AttemptReadAddr ==
    /\ Running({"rd_to"})
    /\ phase = "attempt"
    /\ ~stalled
    /\ LET o == Head(todo)
       IN  \E ok \in AckOutcomes :
             IF ok
             THEN /\ phase' = "data"
                  /\ UNCHANGED log
             ELSE /\ phase' = "start"
                  /\ log' = Append(log, [kind |-> "R", reg |-> o.reg, rc |-> -1, val |-> 0])
    /\ UNCHANGED <<regs, todo, pc, loc, rc, call, pre, out>>
    /\ UNCHANGED ctlvars
    /\ UNCHANGED envvars
    /\ UNCHANGED clkvars

\* i2c_read_with_timeout: the i2c_read_blocking of the data
AttemptReadData ==
    /\ Running({"rd_to"})
    /\ phase = "data"
    /\ ~stalled
    /\ LET o == Head(todo)
       IN  \E ok \in AckOutcomes :
             IF ok
             THEN /\ loc' = [loc EXCEPT !.v = ReadReg(regs, o.reg)]
                  /\ log' = Append(log, [kind |-> "R", reg |-> o.reg, rc |-> 0,
                                         val |-> ReadReg(regs, o.reg)])
                  /\ rc' = 0
                  /\ Advance
             ELSE /\ phase' = "start"
                  /\ log' = Append(log, [kind |-> "R", reg |-> o.reg, rc |-> -2, val |-> 0])
                  /\ UNCHANGED <<loc, rc, todo, pc>>
    /\ UNCHANGED <<regs, call, pre, out>>
    /\ UNCHANGED ctlvars
    /\ UNCHANGED envvars
    /\ UNCHANGED clkvars

\* milliseconds one bus transaction takes at most when the slave answers
\* (two bytes at 100 kHz take 0.2 ms); a slave that holds the clock line low
\* suspends the blocking transfer for as long as it likes
TxnMax == 1

\* one millisecond passes while a bus attempt of a wrapper call is in progress
\* (the loop test and tight_loop_contents() take no time at this resolution)
Tick ==
    /\ Running({"wr_to", "rd_to"})
    /\ phase \in {"attempt", "data"}
    /\ stalled \/ elapsed - att_at < TxnMax
    /\ elapsed < MaxElapsed
    /\ now' = U32Inc(now)
    /\ elapsed' = elapsed + 1
    /\ UNCHANGED <<regs, pc, todo, phase, loc, rc, call, pre, log, out,
                   t_start, attempts, att_at, stalled>>
    /\ UNCHANGED ctlvars
    /\ UNCHANGED envvars

\* the slave starts to hold the bus, and never releases it
SlaveStall ==
    /\ ~stalled
    /\ pc = "run" \/ call = NoCall
    /\ stalled' = TRUE
    /\ UNCHANGED <<regs, pc, todo, phase, loc, rc, call, pre, log, out,
                   now, t_start, elapsed, attempts, att_at>>
    /\ UNCHANGED ctlvars
    /\ UNCHANGED envvars

(***************************************************************************)
(* Specifications.                                                         *)
(*   Spec      one command line, from any initial chip state               *)
(*   SpecFreq  one clk command, over the whole range of arguments          *)
(*   SpecBus   one direct call of the transport, with clock and stalls     *)
(***************************************************************************)
Next ==
    \/ \E a \in {CHIP_ADDR, CHIP_ADDR + 128} : CliInit(a)
    \/ call = NoCall /\ \E cmd \in CmdLines : Dispatch(cmd)
    \/ BusWrite
    \/ BusReadAddr
    \/ BusReadData
    \/ Printf

Spec == Init /\ [][Next]_vars

InitFreq ==
    /\ InitCommon
    /\ InitBooted
    /\ devs = {CHIP_ADDR}
    /\ regs = [r \in TrackedRegs |-> 0]
    /\ pre = regs
    /\ now = U32(0, 0)
    /\ t_start = now

NextFreq ==
    \/ \E a \in {CHIP_ADDR} : CliInit(a)
    \/ call = NoCall /\ \E cmd \in FreqCmdLines : Dispatch(cmd)
    \/ BusWrite
    \/ BusReadAddr
    \/ BusReadData
    \/ Printf

SpecFreq == InitFreq /\ [][NextFreq]_vars

StartTimes ==
    {U32(0, 0), U32(0, 65535), U32(32767, 65535), U32(65535, 65534), U32(65535, 65535)}

InitBus ==
    /\ InitCommon
    /\ InitBooted
    /\ devs = {CHIP_ADDR}
    /\ regs = [r \in TrackedRegs |-> 0]
    /\ pre = regs
    /\ now \in StartTimes
    /\ t_start = now

BusStep ==
    \/ BusWrite
    \/ BusReadAddr
    \/ BusReadData
    \/ LoopTest
    \/ AttemptWrite
    \/ AttemptReadAddr
    \/ AttemptReadData

NextBus ==
    \/ call = NoCall /\ \E len \in 0..MaxLen : CallWrite(REG_MS0_BASE, len)
    \/ call = NoCall /\ CallRead(REG_OE)
    \/ call = NoCall /\ \E t \in 0..MaxTimeout : CallWriteTimeout(REG_OE, 1, t)
    \/ call = NoCall /\ \E t \in 0..MaxTimeout : CallReadTimeout(REG_OE, t)
    \/ BusStep
    \/ Tick
    \/ SlaveStall

SpecBus == InitBus /\ [][NextBus]_vars

FairSpecBus == SpecBus /\ WF_vars(BusStep) /\ WF_vars(Tick)

(***************************************************************************)
(*   SpecAlias  one frequency command in each of its spellings             *)
(***************************************************************************)
\* the verb as typed in capitals; digits and separators stay
Capitals(s) ==
    [i \in 1..Len(s) |->
        IF InSeq(LowerChars, s[i]) THEN UpperChars[IndexOf(LowerChars, s[i])] ELSE s[i]]

\* the first letter typed as a capital
Capital1(s) == IF s = <<>> THEN s ELSE Capitals(SubSeq(s, 1, 1)) \o Tail(s)

\* decimal arguments as typed
MArgs ==
    {<<"0">>, <<"2","0">>, <<"1","0","0">>, <<"1","5","1">>, <<"0","0","7">>,
     <<"-","1">>, <<"4","2","9","5">>, <<"6","7","1","0","8","8","6","4">>}

\* the line "clk N M"
Canonical(n, m) == K_clk \o <<" ">> \o Dec(n) \o <<" ">> \o m

\* the spellings of "set channel n to m MHz"
Spellings(n, m) ==
    {K_clk \o Dec(n) \o <<"=">> \o m,
     K_clk \o Dec(n) \o <<" ">> \o m,
     K_ch \o Dec(n) \o <<"=">> \o m,
     K_freq \o Dec(n) \o <<"=">> \o m,
     Canonical(n, m)}
    \cup (IF n = 0 THEN {K_freq \o <<"=">> \o m, K_freq \o <<" ">> \o m} ELSE {})

\* a spelling in small letters, in capitals, and with a capital first letter
Cases(l) == {l, Capitals(l), Capital1(l)}

AliasLines == UNION {UNION {Cases(l) : l \in Spellings(n, m)} : n \in 0..2, m \in MArgs}

InitAlias ==
    /\ InitCommon
    /\ InitBooted
    /\ devs = {CHIP_ADDR}
    /\ regs \in FillFiles
    /\ pre = regs
    /\ now = U32(0, 0)
    /\ t_start = now

NextAlias ==
    \/ \E a \in {CHIP_ADDR} : CliInit(a)
    \/ call = NoCall /\ \E cmd \in AliasLines : Dispatch(cmd)
    \/ BusWrite
    \/ BusReadAddr
    \/ BusReadData
    \/ Printf

SpecAlias == InitAlias /\ [][NextAlias]_vars

(***************************************************************************)
(* Bus recovery, bring-up of the peripheral, and main's boot sequence.     *)
(***************************************************************************)
\* the pulses of i2c_bus_clear: for (int i = 0; i < 9; i++)
BC_PULSES == 9

\* largest number of pulses after which a peer releases the data line
MaxHold == 10

\* calls of i2c_reset in one run
MaxResets == 1

BcNone == [ret |-> "none", out |-> <<>>]

\* the peer after one more clock pulse
Release(h) == IF h = Never THEN Never ELSE IF h > 0 THEN h - 1 ELSE 0

\* the pins as i2c_bus_clear sets them up before the loop (lines 101-106):
\* gpio_set_dir(scl_pin, GPIO_OUT), gpio_set_dir(sda_pin, GPIO_IN)
BcPins == [scl |-> "out", sda |-> "in"]

\* one low/high pulse on SCL and the value gpio_get(sda_pin) reads after it
Pulse(sda) == [kind |-> "C", scl_dir |-> BcPins.scl, sda_dir |-> BcPins.sda, sda |-> sda]

\* i2c_bus_clear that never breaks out of its loop
bc_done_no_break(sda, n) == n = BC_PULSES

\* the loop of i2c_bus_clear ends after iteration n (1-based): the break on
\* gpio_get(sda_pin), or i < 9 false
bc_done(sda, n) == sda = 1 \/ n = BC_PULSES

\* i2c_bus_clear: one iteration of the loop (SCL low, SCL high, test of SDA);
\* the iteration that ends the loop also returns to main
i2c_bus_clear ==
    /\ bpc = "bus_clear"
    /\ LET h == Release(hold)
           n == pulses + 1
           sda == IF h = 0 THEN 1 ELSE 0
       IN  /\ hold' = h
           /\ pulses' = n
           /\ log' = Append(log, Pulse(sda))
           /\ IF bc_done(sda, n)
              THEN /\ bpc' = "init"
                   /\ life' = Append(life, "bus_clear")
                   /\ bc_obs' = BcVoid
              ELSE UNCHANGED <<bpc, life, bc_obs>>
    /\ UNCHANGED <<regs, pc, todo, phase, loc, rc, call, pre, out, line, devs, periph>>
    /\ UNCHANGED ctlvars
    /\ UNCHANGED clkvars

\* i2c_init_config: i2c_init, and false when it returned a negative value
i2c_init_config(ok) ==
    /\ periph' = IF ok THEN "ready" ELSE "failed"
    /\ life' = Append(life, IF ok THEN "init_ok" ELSE "init_fail")

\* main, lines 79-84: a failed init ends in while (1) tight_loop_contents()
BootInit ==
    /\ bpc = "init"
    /\ \E ok \in BOOLEAN :
         /\ i2c_init_config(ok)
         /\ bpc' = IF ok THEN "ping" ELSE "halt"
    /\ UNCHANGED <<regs, pc, todo, phase, loc, rc, call, pre, log, out,
                   line, devs, hold, pulses, bc_obs>>
    /\ UNCHANGED ctlvars
    /\ UNCHANGED clkvars

\* main, lines 87-91: ping_si5351, and the halt when the chip does not answer
BootPing ==
    /\ bpc = "ping"
    /\ bpc' = IF ProbeAck(CHIP_ADDR) THEN "scan" ELSE "halt"
    /\ UNCHANGED <<regs, pc, todo, phase, loc, rc, call, pre, log, out, line>>
    /\ UNCHANGED hwvars
    /\ UNCHANGED ctlvars
    /\ UNCHANGED clkvars

\* main, lines 94-95: scan_strict sets each device's register pointer to 0 and
\* reads one byte; no register of the chip changes
BootScan ==
    /\ bpc = "scan"
    /\ bpc' = "cli_init"
    /\ UNCHANGED <<regs, pc, todo, phase, loc, rc, call, pre, log, out, line>>
    /\ UNCHANGED hwvars
    /\ UNCHANGED ctlvars
    /\ UNCHANGED clkvars

\* main, line 99: si5351_cli_init(I2C_PORT, 0x60)
BootCliInit ==
    /\ bpc = "cli_init"
    /\ bpc' = "cmd1"
    /\ g_i2c' = "i2c1"
    /\ g_addr' = CHIP_ADDR
    /\ UNCHANGED <<regs, pc, todo, phase, loc, rc, call, pre, log, out, line>>
    /\ UNCHANGED hwvars
    /\ UNCHANGED clkvars

\* main, lines 103-111: the command lines of the boot sequence
BootLines ==
    <<<<"i","n","i","t">>,
      <<"c","l","k","0","=","1","0","0">>,
      <<"c","l","k","1","=","0">>,
      <<"c","l","k","2","=","0">>>>

BootPos == <<"cmd1", "cmd2", "cmd3", "cmd4", "cli">>

BootCmd(k) ==
    /\ bpc = BootPos[k]
    /\ pc = "idle"
    /\ Handle(BootLines[k])
    /\ bpc' = BootPos[k + 1]
    /\ UNCHANGED hwvars

Resets == Len(SelectSeq(life, LAMBDA e : e = "deinit"))

\* i2c_reset, line 31: i2c_deinit_config
ResetDeinit ==
    /\ bpc = "cli"
    /\ pc = "idle"
    /\ Resets < MaxResets
    /\ bpc' = "reset"
    /\ periph' = "off"
    /\ life' = Append(life, "deinit")
    /\ UNCHANGED <<regs, pc, todo, phase, loc, rc, call, pre, log, out,
                   line, devs, hold, pulses, bc_obs>>
    /\ UNCHANGED ctlvars
    /\ UNCHANGED clkvars

\* i2c_reset, lines 32-34: sleep_ms(100), i2c_init_config with its result
\* dropped, and the return to the caller
ResetInit ==
    /\ bpc = "reset"
    /\ \E ok \in BOOLEAN : i2c_init_config(ok)
    /\ bpc' = "cli"
    /\ UNCHANGED <<regs, pc, todo, phase, loc, rc, call, pre, log, out,
                   line, devs, hold, pulses, bc_obs>>
    /\ UNCHANGED ctlvars
    /\ UNCHANGED clkvars

(***************************************************************************)
(*   SpecLife  power-up, main's boot sequence, then commands and resets    *)
(***************************************************************************)
HoldInit == (0..MaxHold) \cup {Never}

\* a command of the loop that makes one bus transaction
LifeLines == {<<"p","e","e","k"," ","3">>}

InitLife ==
    /\ InitCommon
    /\ bpc = "bus_clear"
    /\ periph = "off"
    /\ life = <<>>
    /\ hold \in HoldInit
    /\ pulses = 0
    /\ bc_obs = BcNone
    /\ devs \in {{CHIP_ADDR}, {}}
    /\ regs = [r \in TrackedRegs |-> 0]
    /\ pre = regs
    /\ now = U32(0, 0)
    /\ t_start = now

NextLife ==
    \/ i2c_bus_clear
    \/ BootInit
    \/ BootPing
    \/ BootScan
    \/ BootCliInit
    \/ \E k \in 1..4 : BootCmd(k)
    \/ \E cmd \in LifeLines : Dispatch(cmd)
    \/ ResetDeinit
    \/ ResetInit
    \/ BusWrite
    \/ BusReadAddr
    \/ BusReadData
    \/ Printf

SpecLife == InitLife /\ [][NextLife]_vars

(***************************************************************************)
(*   SpecClear  power-up and main's boot sequence up to si5351_cli_init    *)
(***************************************************************************)
NextClear ==
    \/ i2c_bus_clear
    \/ BootInit
    \/ BootPing
    \/ BootScan
    \/ BootCliInit

SpecClear == InitLife /\ [][NextClear]_vars

(***************************************************************************)
(*   SpecSeq  init, then any sequence of init, freq/clk, force_on and oe   *)
(*            commands, on a bus on which every transaction succeeds       *)
(***************************************************************************)
SeqLines ==
    {<<"i","n","i","t">>,
     <<"f","o","r","c","e","_","o","n">>,
     <<"o","e"," ","o","n">>,
     <<"o","e"," ","o","f","f">>,
     <<"f","r","e","q"," ","2","5">>}
    \cup {ClkLine(ch, m) : ch \in 0..2, m \in {0, 100}}

\* the bus steps in which the chip acknowledges
OkWrite == BusWrite /\ rc' = 0

OkReadAddr == BusReadAddr /\ phase' = "data"

OkReadData == BusReadData /\ rc' = 0

InitSeq ==
    /\ InitCommon
    /\ InitBooted
    /\ devs = {CHIP_ADDR}
    /\ regs \in FillFiles
    /\ pre = regs
    /\ now = U32(0, 0)
    /\ t_start = now

NextSeq ==
    \/ \E a \in {CHIP_ADDR} : CliInit(a)
    \/ call = NoCall /\ Dispatch(<<"i","n","i","t">>)
    \/ call # NoCall /\ \E cmd \in SeqLines : Dispatch(cmd)
    \/ OkWrite
    \/ OkReadAddr
    \/ OkReadData
    \/ Printf

SpecSeq == InitSeq /\ [][NextSeq]_vars

(***************************************************************************)
(*   SpecScan  one scan command, over buses with different devices         *)
(***************************************************************************)
\* lines main's loop hands to si5351_cli_handle (it keeps a bare "scan")
ScanLines ==
    {<<"s","c","a","n"," ">>, <<" ","S","C","A","N">>, <<"s","c","a","n"," ","x">>,
     <<"s","c","a","n","=">>}

\* the addresses that acknowledge: none, one in range (first, last, the chip),
\* some outside the range, two in range
DevSets ==
    {{}, {CHIP_ADDR}, {8}, {119}, {7}, {120}, {3, 7, 120}, {7, CHIP_ADDR, 120},
     {32, CHIP_ADDR}, {0, 118}}

InitScan ==
    /\ InitCommon
    /\ InitBooted
    /\ devs \in DevSets
    /\ regs = [r \in TrackedRegs |-> 0]
    /\ pre = regs
    /\ now = U32(0, 0)
    /\ t_start = now

NextScan ==
    \/ \E a \in {CHIP_ADDR} : CliInit(a)
    \/ call = NoCall /\ \E cmd \in ScanLines : Dispatch(cmd)
    \/ ScanProbe
    \/ Printf

SpecScan == InitScan /\ [][NextScan]_vars

(***************************************************************************)
(* Properties.                                                             *)
(***************************************************************************)
\* the bus writes of the call so far, in order
Writes == SelectSeq(log, LAMBDA e : e.kind = "W")

\* the call has returned
Done == pc = "idle" /\ call # NoCall

\* the call is set_channel_frequency with a channel index in {0, 1, 2}
SetFreqCall == call.fn = "set_freq" /\ ~U32Gt(call.ch, 2)

Chan == U32Int(call.ch)

\* ... with frequency_mhz = 0
DisableCall == SetFreqCall /\ call.mhz = U32(0, 0)

\* ... with a non-zero frequency that the range check let pass
AcceptedCall ==
    SetFreqCall /\ call.mhz # U32(0, 0) /\ ~too_high(U32MulMega(call.mhz))

AllWritesOk == \A i \in 1..Len(log) : log[i].kind = "W" => log[i].ok

\* C1: in a set_channel_frequency(ch, f) call with an accepted non-zero
\* frequency the bus writes are, in this order, the 8-byte divider burst at
\* the channel's multisynth base, the channel's control register = 0x4F, and
\* the Output-Enable write with bit ch clear; Output-Enable is never written
\* before the other two, and the completed call has made all three.
C1_WriteOrder ==
    AcceptedCall =>
        LET W == Writes
        IN  /\ Len(W) <= 3
            /\ Len(W) >= 1 => W[1].reg = k_ms_base[Chan + 1] /\ Len(W[1].data) = 8
            /\ Len(W) >= 2 => W[2].reg = k_clk_ctrl[Chan + 1] /\ W[2].data = <<79>>
            /\ Len(W) >= 3 => /\ W[3].reg = REG_OE
                              /\ Len(W[3].data) = 1
                              /\ Bit(W[3].data[1], Chan) = 0
            /\ Done => Len(W) = 3

C1_Witness ==
    /\ Done
    /\ AcceptedCall
    /\ Chan = 2
    /\ Len(Writes) = 3
    /\ AllWritesOk
    /\ Bit(pre[REG_OE], 2) = 1
    /\ Bit(regs[REG_OE], 2) = 0

\* the registers init_basic writes, in program order
InitOrder ==
    <<REG_OE, REG_CRYSTAL_LOAD, REG_PLLA_BASE, REG_PLL_RESET, REG_MS0_BASE,
      REG_CLK0_CTRL, REG_CLK1_CTRL, REG_CLK2_CTRL, REG_OE>>

\* C2: init_basic writes Output-Enable = 0xFF first, then the crystal load
\* register, the 8-byte PLLA burst, the PLL reset, the 8-byte channel 0
\* divider burst, CLK0 control = 0x4F, CLK1 and CLK2 control with the
\* power-down bit set, and Output-Enable = 0xFE last; Output-Enable is not
\* written in between.
C2_InitOrder ==
    call.fn = "init" =>
        LET W == Writes
        IN  /\ Len(W) <= 9
            /\ \A i \in 1..Len(W) : W[i].reg = InitOrder[i]
            /\ Len(W) >= 1 => W[1].data = <<255>>
            /\ Len(W) >= 3 => Len(W[3].data) = 8
            /\ Len(W) >= 5 => Len(W[5].data) = 8
            /\ Len(W) >= 6 => W[6].data = <<79>>
            /\ Len(W) >= 7 => Len(W[7].data) = 1 /\ Bit(W[7].data[1], 7) = 1
            /\ Len(W) >= 8 => Len(W[8].data) = 1 /\ Bit(W[8].data[1], 7) = 1
            /\ Len(W) >= 9 => W[9].data = <<254>>
            /\ \A i \in 2..Len(W) : i < 9 => W[i].reg # REG_OE
            /\ Done => Len(W) = 9

C2_Witness ==
    /\ Done
    /\ call.fn = "init"
    /\ Len(Writes) = 9
    /\ Writes[9].reg = REG_OE
    /\ Writes[9].data = <<254>>
    /\ Bit(pre[REG_OE], 0) = 0

\* the last bus transaction of the call is an acknowledged Output-Enable write
FinalOeWriteOk ==
    /\ log # <<>>
    /\ log[Len(log)].kind = "W"
    /\ log[Len(log)].reg = REG_OE
    /\ log[Len(log)].ok

\* C3: a completed single-channel set_channel_frequency call whose final
\* Output-Enable write succeeds leaves the Output-Enable bits of the two other
\* channels as they were and sets bit ch to the requested state (1 for f = 0,
\* 0 for an accepted f > 0), whatever the outcome of the intermediate read.
C3_OnlyOwnBit ==
    (Done /\ (DisableCall \/ AcceptedCall) /\ FinalOeWriteOk) =>
        /\ \A b \in (0..2) \ {Chan} : Bit(regs[REG_OE], b) = Bit(pre[REG_OE], b)
        /\ Bit(regs[REG_OE], Chan) = IF DisableCall THEN 1 ELSE 0

\* C4: set_channel_frequency(ch, 0) writes no multisynth and no control
\* register: its only bus write is one write of the Output-Enable register,
\* and the divider and control registers of every channel are unchanged.
C4_DisableWritesOnlyOe ==
    DisableCall =>
        /\ Len(Writes) <= 1
        /\ \A i \in 1..Len(Writes) : Writes[i].reg = REG_OE /\ Len(Writes[i].data) = 1
        /\ Done => Len(Writes) = 1
        /\ \A c \in 1..3 :
             /\ Burst(regs, k_ms_base[c]) = Burst(pre, k_ms_base[c])
             /\ regs[k_clk_ctrl[c]] = pre[k_clk_ctrl[c]]

C4_Witness ==
    /\ Done
    /\ DisableCall
    /\ Chan = 1
    /\ Len(Writes) = 1
    /\ Writes[1].ok
    /\ Bit(pre[REG_OE], 1) = 0
    /\ Bit(regs[REG_OE], 1) = 1

\* the divider a multisynth burst encodes: P1 = 128 a - 512 in bytes 3..5
DecodeP1(data) == data[3] * 65536 + data[4] * 256 + data[5]

DecodeDiv(data) == (DecodeP1(data) + 512) \div 128

\* d = round(800 MHz / (m MHz)), halves rounded up: d - 1/2 <= 800/m < d + 1/2
IsRounded(d, m) ==
    LET pll2 == (2 * PLLA_FREQ) \div HZ_PER_MHZ
    IN  (2 * d - 1) * m <= pll2 /\ pll2 < (2 * d + 1) * m

\* C5: for frequency_mhz in 1..150 the divider set_channel_frequency programs
\* (the one its multisynth burst encodes, and the one it reports) equals
\* round(800,000,000 / f), halves rounded up, and is at least 4.
C5_Divider ==
    (SetFreqCall /\ call.mhz.hi = 0 /\ call.mhz.lo \in 1..150) =>
        /\ \A i \in 1..Len(Writes) :
             Writes[i].reg = k_ms_base[Chan + 1] =>
                /\ Len(Writes[i].data) = 8
                /\ (DecodeP1(Writes[i].data) + 512) % 128 = 0
                /\ DecodeDiv(Writes[i].data) >= 4
                /\ IsRounded(DecodeDiv(Writes[i].data), call.mhz.lo)
        /\ Done => /\ Len(Writes) = 3
                   /\ Writes[1].reg = k_ms_base[Chan + 1]
                   /\ out[Len(out)].msg = "CLK_SET"
                   /\ out[Len(out)].args[3] = DecodeDiv(Writes[1].data)

C5_Witness ==
    /\ Done
    /\ SetFreqCall
    /\ Chan = 1
    /\ call.mhz = U32(0, 64)
    /\ Len(Writes) = 3
    /\ DecodeDiv(Writes[1].data) = 13

\* C6: a set_channel_frequency call whose frequency_mhz x 1,000,000, as a
\* mathematical integer, exceeds 150,000,000 (frequency_mhz > 150 as an
\* unsigned 32-bit value) makes no bus write and prints only the 'too high'
\* diagnostic.
C6_TooHighRejected ==
    (SetFreqCall /\ U32Gt(call.mhz, 150)) =>
        /\ Writes = <<>>
        /\ Done => Len(out) = 1 /\ out[1].msg = "TOO_HIGH"

\* C7: after an init_basic in which every bus write succeeded, whatever the
\* chip's registers held before, Output-Enable is 0xFE, channel 0's
\* multisynth registers hold {0,1,0,2,0,0,0,0} (P1 = 512, integer divider 8),
\* CLK0 control is 0x4F and CLK1 and CLK2 control have bit 7 set.
C7_InitResult ==
    (Done /\ call.fn = "init" /\ AllWritesOk) =>
        /\ regs[REG_OE] = 254
        /\ Burst(regs, REG_MS0_BASE) = <<0, 1, 0, 2, 0, 0, 0, 0>>
        /\ DecodeDiv(Burst(regs, REG_MS0_BASE)) = 8
        /\ regs[REG_CLK0_CTRL] = 79
        /\ Bit(regs[REG_CLK1_CTRL], 7) = 1
        /\ Bit(regs[REG_CLK2_CTRL], 7) = 1

C7_Witness ==
    /\ Done
    /\ call.fn = "init"
    /\ AllWritesOk
    /\ Len(Writes) = 9
    /\ pre[REG_OE] = 7
    /\ pre[REG_CLK1_CTRL] = 0
    /\ regs[REG_OE] = 254

\* C8: write(addr, reg, buf, len) with len > 8 performs no bus activity and
\* returns a failure.
C8_OversizeRejected ==
    (call.fn = "i2c_write" /\ call.len > 8) =>
        /\ log = <<>>
        /\ Done => rc # 0

\* C9: every call of read and write eventually returns, also when the slave
\* stalls the bus forever.
C9_CallReturns ==
    (pc = "run" /\ call.fn \in {"i2c_read", "i2c_write"}) ~> (pc = "idle")

WrapperCall == call.fn \in {"i2c_write_with_timeout", "i2c_read_with_timeout"}

\* the logged bus attempt succeeded
AttemptOk(e) == IF e.kind = "W" THEN e.ok ELSE e.rc = 0

\* C10: read_with_timeout and write_with_timeout start a bus attempt only
\* while the time elapsed since the call started is below timeout_ms (none at
\* all for timeout_ms = 0); they return 0 exactly after the first successful
\* attempt, without a further one, and return -1 only when no attempt
\* succeeded and the elapsed time has reached timeout_ms.
C10_RetryUntilDeadline ==
    WrapperCall =>
        /\ attempts > 0 => att_at < call.timeout
        /\ call.timeout = 0 => attempts = 0 /\ log = <<>>
        /\ Len(log) <= attempts
        /\ \A i \in 1..(Len(log) - 1) : ~AttemptOk(log[i])
        /\ (log # <<>> /\ AttemptOk(log[Len(log)])) => Done /\ rc = 0
        /\ Done => /\ rc \in {0, -1}
                   /\ Len(log) = attempts
                   /\ rc = 0 => log # <<>> /\ AttemptOk(log[Len(log)])
                   /\ rc = -1 => /\ elapsed >= call.timeout
                                 /\ \A i \in 1..Len(log) : ~AttemptOk(log[i])

C10_Witness ==
    /\ Done
    /\ WrapperCall
    /\ rc = -1
    /\ attempts >= 2
    /\ call.timeout = 2
    /\ elapsed = 2
    /\ t_start.hi = 65535
    /\ now.hi = 0

\* C11: read_with_timeout and write_with_timeout have returned once more than
\* timeout_ms plus the worst-case duration of one bus transaction has passed
\* since the call started, whatever the slave does (a stall included)
C11_ReturnsByDeadline ==
    (WrapperCall /\ pc = "run") => elapsed <= call.timeout + TxnMax

ScanCall == call.fn = "scan"

\* the acknowledging addresses scan_quick may probe
InRange == devs \cap (8..119)

\* C13: scan_quick probes 0x08, 0x09, ... in ascending order, never an address
\* outside 0x08..0x77, and none after the first that acknowledged; with exactly
\* one acknowledging address in range it reports that address once and
\* returns 1, with none it makes 112 probes and returns 0.
C13_ScanQuick ==
    ScanCall =>
        /\ \A i \in 1..Len(log) :
              /\ log[i].kind = "P"
              /\ log[i].addr = 8 + (i - 1)
              /\ log[i].addr <= 119
              /\ log[i].ok = (log[i].addr \in devs)
              /\ i < Len(log) => ~log[i].ok
        /\ Done =>
              /\ Len(out) = 1
              /\ \A a \in InRange :
                    InRange = {a} =>
                        /\ rc = 1
                        /\ out = <<[msg |-> "FOUND", args |-> <<a>>]>>
                        /\ log[Len(log)].addr = a
              /\ InRange = {} =>
                        /\ rc = 0
                        /\ out = <<[msg |-> "NONE", args |-> <<>>]>>
                        /\ Len(log) = 112

C13_Witness ==
    /\ ScanCall
    /\ Done
    /\ devs = {7, CHIP_ADDR, 120}
    /\ rc = 1
    /\ Len(log) = 89

\* C12: when i2c_bus_clear has returned with the data line still held low,
\* what its caller receives differs from what it receives when the line was
\* released (the return value and the lines printed, BcVoid)
C12_StuckReported ==
    (bpc # "bus_clear" /\ hold # 0) => bc_obs # BcVoid

\* C18: every init of the peripheral directly follows a bus_clear: no init
\* without a bus_clear since the previous init or deinit
C18_ClearBeforeInit ==
    \A i \in 1..Len(life) :
        life[i] \in {"init_ok", "init_fail"} => (i > 1 /\ life[i - 1] = "bus_clear")

\* C19: once the init of the peripheral has failed, at boot or in reset, no
\* command and no bus transaction is executed
C19_HaltOnInitFailure ==
    periph = "failed" => (pc = "idle" /\ todo = <<>>)

\* each spelling with its channel and argument, the call "clk N M" is routed
\* to, and the operations of that call
AliasTable ==
    UNION {{[line |-> c, n |-> n, m |-> m,
             route |-> si5351_cli_handle(Canonical(n, m)),
             ops |-> {handler_ops(si5351_cli_handle(Canonical(n, m)), d) : d \in UBDivs}] :
               c \in UNION {Cases(l) : l \in Spellings(n, m)}} :
           n \in 0..2, m \in MArgs}

\* ops is what is left of the operations all after some of them were done
IsSuffix(ops, all) ==
    /\ Len(ops) <= Len(all)
    /\ ops = SubSeq(all, Len(all) - Len(ops) + 1, Len(all))

\* C14: every spelling of "set channel N to M MHz" ("clkN=M", "clkN M",
\* "chN=M", "freqN=M", "clk N M", and "freq=M", "freq M" for N = 0), in any
\* letter case, is the same call as "clk N M": the same handler with the same
\* arguments, hence the same operations on the same chip state.
C14_AliasesAgree ==
    \A a \in AliasTable :
        (line = a.line /\ call # NoCall) =>
            /\ call = a.route
            /\ call = [fn |-> "set_freq", ch |-> ToU32(a.n), mhz |-> ToU32(atoi(a.m))]
            /\ \E ops \in a.ops : IsSuffix(todo, ops)

C14_Witness ==
    /\ line = <<"C","H","1","=","2","0">>
    /\ Done
    /\ AllWritesOk
    /\ Len(Writes) = 3
    /\ regs[REG_CLK1_CTRL] = CTRL_ON

\* lines whose first token is none of the dispatcher's verbs
UnknownLines ==
    {<<"x","y","z">>, <<"c","l","k","3","=","5">>, <<"P","i","n","g">>,
     <<"h","e","l","p","m","e"," ","3">>, <<"c","l"," ","0"," ","1","0">>}

\* C15: a line whose first token matches no verb makes no bus read or write,
\* leaves the chip's registers and the bound bus handle and chip address as
\* they were, and prints exactly one diagnostic line.
C15_UnknownVerb ==
    /\ (call # NoCall /\ line \in UnknownLines) => call.fn = "unknown"
    /\ call.fn = "unknown" =>
          /\ log = <<>>
          /\ regs = pre
          /\ g_i2c = "i2c1" /\ g_addr = CHIP_ADDR
          /\ pc = "run" => out = <<>>
          /\ Done => out = <<[msg |-> "UNKNOWN", args |-> <<>>]>>

C15_Witness ==
    /\ Done
    /\ line = <<"c","l","k","3","=","5">>
    /\ call.fn = "unknown"
    /\ Len(out) = 1
    /\ regs[REG_OE] = 0

\* the call is set_channel_frequency with a channel index outside {0, 1, 2}
BadChannelCall == call.fn = "set_freq" /\ U32Gt(call.ch, 2)

\* C16: set_channel_frequency with a channel index outside {0, 1, 2}, a
\* negative argument converted to unsigned included, makes no bus read and no
\* bus write, changes no state and prints a diagnostic, whatever the
\* frequency argument.
C16_BadChannelRejected ==
    /\ \A ch \in BadChannels, m \in WrapArgs \cup {0, 100} :
          (call # NoCall /\ line = ClkLine(ch, m)) => BadChannelCall
    /\ BadChannelCall =>
          /\ log = <<>>
          /\ regs = pre
          /\ g_i2c = "i2c1" /\ g_addr = CHIP_ADDR
          /\ Done => out = <<[msg |-> "ERR_CH", args |-> <<call.ch>>]>>

C16_Witness ==
    /\ Done
    /\ line = ClkLine(-1, 4295)
    /\ call.ch = U32(65535, 65535)
    /\ out # <<>>

\* the lines "[I2C] WR FAIL ..." printed so far
FailLines == SelectSeq(out, LAMBDA e : e.msg \in {"WR_FAIL", "WR_FAIL_MS", "WR_FAIL_PLLA"})

FailedWrites == SelectSeq(log, LAMBDA e : e.kind = "W" /\ ~e.ok)

\* C17: whichever of init_basic's writes fail, the bus transactions of the
\* call are its nine writes, each once, in the order and with the data of the
\* failure-free run: no write is repeated, none is skipped, and the call
\* does not end before the ninth; each failure is logged once.
C17_InitGoesOn ==
    call.fn = "init" =>
        /\ Len(log) <= 9
        /\ \A i \in 1..Len(log) :
              /\ log[i].kind = "W"
              /\ log[i].reg = InitOrder[i]
              /\ log[i].data = si5351_init_basic[i].data
        /\ Len(FailLines) = Len(FailedWrites)
        /\ pc = "run" => Len(todo) = 10 - Len(log)
        /\ Done => Len(log) = 9

C17_Witness ==
    /\ Done
    /\ call.fn = "init"
    /\ Len(log) = 9
    /\ ~log[1].ok
    /\ ~log[5].ok
    /\ log[9].ok
    /\ Len(FailedWrites) = 2

\* a read transaction of the call that failed in either phase
FailedRead(e) == e.kind = "R" /\ e.rc # 0

\* C20: the buffer of a failed read is not used as the register's value: when
\* a read of the call failed, status, force_on and peek print no register
\* line, and set_channel_frequency writes no Output-Enable value computed
\* from a failed Output-Enable read.
C20_FailedReadNotUsed ==
    /\ (/\ call.fn \in {"status", "force_on", "peek"}
        /\ \E i \in 1..Len(log) : FailedRead(log[i])) =>
              \A j \in 1..Len(out) : out[j].msg \notin {"STATUS", "FORCE", "REG"}
    /\ call.fn = "set_freq" =>
          \A i \in 1..Len(log) :
              (FailedRead(log[i]) /\ log[i].reg = REG_OE) =>
                  \A j \in (i + 1)..Len(log) :
                      ~(log[j].kind = "W" /\ log[j].reg = REG_OE)

\* the registers and directions of force_enable's bus transactions, in order
ForceOrder ==
    <<[kind |-> "W", reg |-> REG_OE], [kind |-> "W", reg |-> REG_OE],
      [kind |-> "W", reg |-> REG_CLK0_CTRL],
      [kind |-> "R", reg |-> REG_OE], [kind |-> "R", reg |-> REG_CLK0_CTRL]>>

\* C21: force_enable makes exactly three bus writes, Output-Enable = 0xFF,
\* Output-Enable = 0xFE, CLK0 control = 0x4F in this order, then reads
\* Output-Enable and CLK0 control; no divider register and no control
\* register of channel 1 or 2 is written or changes; when the three writes
\* succeed, Output-Enable is 0xFE and CLK0 control is 0x4F whatever the chip
\* held before.
C21_ForceEnable ==
    call.fn = "force_on" =>
        /\ Len(log) <= 5
        /\ \A i \in 1..Len(log) :
              /\ log[i].kind = ForceOrder[i].kind
              /\ log[i].reg = ForceOrder[i].reg
        /\ Len(log) >= 1 => log[1].data = <<255>>
        /\ Len(log) >= 2 => log[2].data = <<254>>
        /\ Len(log) >= 3 => log[3].data = <<79>>
        /\ \A r \in TrackedRegs \ {REG_OE, REG_CLK0_CTRL} : regs[r] = pre[r]
        /\ Done => Len(log) = 5 /\ Len(Writes) = 3
        /\ (Done /\ AllWritesOk) => regs[REG_OE] = 254 /\ regs[REG_CLK0_CTRL] = 79

C21_Witness ==
    /\ Done
    /\ call.fn = "force_on"
    /\ AllWritesOk
    /\ Len(log) = 5
    /\ pre[REG_OE] = 7
    /\ pre[REG_CLK0_CTRL] = 255
    /\ regs[REG_OE] = 254
    /\ regs[REG_CLK0_CTRL] = 79

\* the divider set_ms_intdiv encodes in the call: (uint16_t)div, at least 4
PassedDivs ==
    {IF v < 4 THEN 4 ELSE v :
        v \in {freq_div(U32MulMega(call.mhz), d) % 65536 : d \in UBDivs}}

\* the bytes that hold P1 = 128 a - 512, P2 = 0, P3 = 1 when P1 fits its field
ExactBytes(a) ==
    LET P1 == 128 * a - 512
    IN  <<0, 1, (P1 \div 65536) % 4, (P1 \div 256) % 256, P1 % 256, 0, 0, 0>>

\* C22: for every divider set_channel_frequency passes to the register
\* encoding, P1 = 128 x divider - 512 is below 2^18, the burst written is
\* {0x00, 0x01, (P1>>16)&0x03, (P1>>8)&0xFF, P1&0xFF, 0, 0, 0}, and decoding
\* the burst gives the divider back.
C22_EncodingLossless ==
    AcceptedCall =>
        \A i \in 1..Len(Writes) :
            Writes[i].reg = k_ms_base[Chan + 1] =>
                \E a \in PassedDivs :
                    /\ 128 * a - 512 < 262144
                    /\ Writes[i].data = ExactBytes(a)
                    /\ DecodeDiv(Writes[i].data) = a

\* the clock pulses made so far, each with the data line as sampled after it
ClockPulses == SelectSeq(log, LAMBDA e : e.kind = "C")

\* C23: bus_clear makes between 1 and 9 clock pulses, with SCL an output and
\* SDA an input, and samples SDA after each; every pulse but the last was
\* followed by a low sample, and the last one is the first followed by a high
\* sample or the ninth: the number of pulses is min(9, k), k the index of the
\* first pulse after which SDA reads high.
C23_PulseCount ==
    LET P == ClockPulses
    IN  /\ Len(P) = pulses
        /\ pulses <= 9
        /\ \A i \in 1..Len(P) : P[i].scl_dir = "out" /\ P[i].sda_dir = "in"
        /\ \A i \in 1..(Len(P) - 1) : P[i].sda = 0
        /\ bpc = "bus_clear" => \A i \in 1..Len(P) : P[i].sda = 0
        /\ bpc # "bus_clear" => /\ pulses >= 1
                                /\ pulses = 9 \/ P[pulses].sda = 1
                                /\ hold # 0 => pulses = 9

C23_Witness ==
    /\ bpc = "ping"
    /\ pulses = 4
    /\ Len(ClockPulses) = 4
    /\ ClockPulses[4].sda = 1
    /\ ClockPulses[3].sda = 0

\* the first init_basic has written Output-Enable = 0xFF, or has completed
AfterInit == call # NoCall /\ ~(call.fn = "init" /\ log = <<>>)

\* C24: after a successful init_basic, at every point of every sequence of
\* init, freq/clk, force_on and oe commands whose bus operations all
\* succeed, a channel with Output-Enable bit 0 has control register 0x4F and
\* a divider of at least 4 in its multisynth registers.
C24_NoEnabledPowerDown ==
    AfterInit =>
        \A ch \in 0..2 :
            Bit(regs[REG_OE], ch) = 0 =>
                /\ regs[k_clk_ctrl[ch + 1]] = 79
                /\ Bit(regs[k_clk_ctrl[ch + 1]], 7) = 0
                /\ DecodeDiv(Burst(regs, k_ms_base[ch + 1])) >= 4

\* the millisecond counter has passed 2^32 since the call started
Wrapped == U32Lt(now, t_start)

\* C25: the deadline test of read_with_timeout and write_with_timeout is
\* right across the wrap of the 32-bit millisecond counter: for every start
\* value the difference (now - start) mod 2^32 is the time elapsed since the
\* call started, an attempt starts only while it is below timeout_ms, before
\* and after the wrap, and the call gives up only once it has reached
\* timeout_ms.
C25_DeadlineAcrossWrap ==
    WrapperCall =>
        /\ U32Sub(now, t_start) = ToU32(elapsed)
        /\ (phase = "attempt" /\ att_at = elapsed) =>
               U32Lt(U32Sub(now, t_start), ToU32(call.timeout))
        /\ (pc = "run" /\ attempts > 0) => att_at < call.timeout
        /\ (Done /\ rc = -1) => ~U32Lt(U32Sub(now, t_start), ToU32(call.timeout))
        /\ (Done /\ rc = -1 /\ Wrapped) => elapsed >= call.timeout

C25_Witness ==
    /\ WrapperCall
    /\ pc = "run"
    /\ Wrapped
    /\ t_start = U32(65535, 65535)
    /\ phase = "attempt"
    /\ attempts = 2
    /\ att_at = elapsed
    /\ elapsed = 1

=============================================================================
